---- MODULE Spec2Model ----
(***************************************************************************)
(* ETo irrigation integration (dpktjf/eto-irrigation).                     *)
(*                                                                         *)
(* Two variants of the API client are modelled:                            *)
(*   eto_irrigation  - readings are pushed with entity_update into         *)
(*                     _entities; collect_calculation_data gates on them,  *)
(*                     converts them into _calc_data and runs calc_eto.    *)
(*   eto_test        - readings are pulled from the host state machine     *)
(*                     with _get; there is no gate.                        *)
(*                                                                         *)
(* Representation of Python values.                                        *)
(*   None          the empty tuple <<>>                                    *)
(*   a float       Num(v) = <<v>>, v an integer counting hundredths        *)
(*                 (19.1 is Num(1910), 63 % is Num(6300), 0.63 is Num(63)) *)
(*   a result of a helper of api_helpers (whose arithmetic is outside the  *)
(*   files modelled here) is the term <<"helper", arg1, ..., argn>>: a     *)
(*   deterministic function of exactly its arguments.                      *)
(*   a dict        a function whose DOMAIN is the set of keys present      *)
(***************************************************************************)
EXTENDS Integers, Sequences, FiniteSets, TLC

VARIABLES
    entities,     \* eto_irrigation ETOApiClient._entities : entity id -> value
    calc_data,    \* eto_irrigation ETOApiClient._calc_data : dict
    now,          \* the host clock: day of year of datetime.now()
    data,         \* coordinator.data: what consumers read ("None" or a reference)
    cycle,        \* the last refresh: "no data yet" logged, calc_eto called, how
                  \* async_get_data ended, what _async_update_data gave the scheduler
    last_good,    \* history: the Result at the end of the last successful run, or None
    states,       \* eto_test: the host state machine, input -> state string
    t_calc_data,  \* eto_test ETOApiClient._calc_data : dict
    t_cycle,      \* eto_test: outcome of the last collect_calculation_data
    pc,           \* stepwise schedule: position of each task in its coroutine
    running,      \* stepwise schedule: the task holding the event loop, or "none"
    entry_options,  \* options flow: the options of the config entry (ConfigEntry.options)
    built_options,  \* options flow, history: the options _entities was built from
    listener,       \* options flow: the update listener, "idle" or "scheduled"
    heap,         \* two instances: the dicts of both clients, cell -> dict
    t_update,     \* eto_test: the last _async_update_data, request and outcome
    dur,          \* duration: the inputs of the estimator and what the sensor shows
    stages,       \* calc_eto run assignment by assignment, on two dicts with different leftovers
    delivered,    \* history: the entities that delivered a value through entity_update
    registry      \* the config entries of both integrations and the flows in progress

vars == <<entities, calc_data, now, data, cycle, last_good, states, t_calc_data, t_cycle, pc,
          running, entry_options, built_options, listener, heap, t_update, dur, stages,
          delivered, registry>>

irrigationVars == <<entities, calc_data, now, data, cycle, last_good>>
testVars == <<states, t_calc_data, t_cycle>>
schedVars == <<pc, running>>
flowVars == <<entry_options, built_options, listener>>
twoVars == <<heap>>
fetchVars == <<t_update>>
durationVars == <<dur>>
pipelineVars == <<stages>>
deliveryVars == <<delivered>>
registryVars == <<registry>>
\* the variables the specifications of the single client leave alone
otherVars == <<flowVars, twoVars, fetchVars, durationVars, pipelineVars, deliveryVars,
               registryVars>>

-----------------------------------------------------------------------------
(* Values *)

None == <<>>

Num(v) == <<v>>

IsNum(x) == Len(x) = 1

Val(x) == x[1]

\* dict assignment d[k] = v (adds the key when it is new)
Put(d, k, v) == [x \in (DOMAIN d) \cup {k} |-> IF x = k THEN v ELSE d[x]]

-----------------------------------------------------------------------------
(* Bounds of the model *)

\* first day of year the clock shows
DayOne == 180

\* number of day changes the clock makes
MaxDays == 1

-----------------------------------------------------------------------------
(* Configuration of the instance *)

\* the seven required logical inputs, in the order of the source
RequiredInputs ==
    <<"CONF_TEMP_MIN", "CONF_TEMP_MAX", "CONF_HUMIDITY_MIN", "CONF_HUMIDITY_MAX",
      "CONF_WIND", "CONF_SOLAR_RAD", "CONF_ALBEDO">>

Required == {RequiredInputs[i] : i \in 1..Len(RequiredInputs)}

\* config.options: logical input -> entity id
options ==
    [f \in Required |->
        CASE f = "CONF_TEMP_MIN"     -> "sensor.temp_min"
          [] f = "CONF_TEMP_MAX"     -> "sensor.temp_max"
          [] f = "CONF_HUMIDITY_MIN" -> "sensor.humidity_min"
          [] f = "CONF_HUMIDITY_MAX" -> "sensor.humidity_max"
          [] f = "CONF_WIND"         -> "sensor.wind"
          [] f = "CONF_SOLAR_RAD"    -> "sensor.solar_rad"
          [] f = "CONF_ALBEDO"       -> "sensor.albedo"]

EntityIds == {options[f] : f \in Required}

\* hass.config: elevation 2 m, latitude 16.21, longitude -17.50
hass_config == [elevation |-> Num(200), latitude |-> Num(1621), longitude |-> Num(-1750)]

\* the numeric readings an entity delivers (hundredths of its unit)
Readings(e) ==
    CASE e = "sensor.temp_min"     -> {Num(1910)}
      [] e = "sensor.temp_max"     -> {Num(2510)}
      [] e = "sensor.humidity_min" -> {Num(6300), Num(15000)}
      [] e = "sensor.humidity_max" -> {Num(8400), Num(-500)}
      [] e = "sensor.wind"         -> {Num(0), Num(3600)}
      [] e = "sensor.solar_rad"    -> {Num(1450)}
      [] e = "sensor.albedo"       -> {Num(23)}

-----------------------------------------------------------------------------
(* api_helpers: the FAO-56 primitives.  Pure functions of their arguments;  *)
(* a humidity fraction outside [0,1] is rejected with a ValueError.         *)

wind_speed(ws, z) == <<"wind_speed", ws, z>>

delta_svp(t) == <<"delta_svp", t>>

atm_pressure(altitude) == <<"atm_pressure", altitude>>

psy_const(p) == <<"psy_const", p>>

delta_term(d, g, u2) == <<"delta_term", d, g, u2>>

psi_term(d, g, u2) == <<"psi_term", d, g, u2>>

temperature_term(t, u2) == <<"temperature_term", t, u2>>

svp_from_t(t) == <<"svp_from_t", t>>

\* the humidity fractions ea_from_rh accepts: 0 <= rh <= 1
rh_in_domain(rh) == IsNum(rh) /\ Val(rh) >= 0 /\ Val(rh) <= 100

ea_from_rh(svp, rh) == <<"ea_from_rh", svp, rh>>

inv_rel_dist_earth_sun(doy) == <<"inv_rel_dist_earth_sun", doy>>

sol_dec(doy) == <<"sol_dec", doy>>

deg2rad(deg) == <<"deg2rad", deg>>

sunset_hour_angle(lat, sd) == <<"sunset_hour_angle", lat, sd>>

et_rad(lat, sd, sha, ird) == <<"et_rad", lat, sd, sha, ird>>

cs_rad(altitude, ra) == <<"cs_rad", altitude, ra>>

net_in_sol_rad(rs, albedo) == <<"net_in_sol_rad", rs, albedo>>

c_to_k(c) == <<"c_to_k", c>>

net_out_lw_rad(tmin, tmax, rs, rso, avp) == <<"net_out_lw_rad", tmin, tmax, rs, rso, avp>>

net_rad(ni, no) == <<"net_rad", ni, no>>

net_rad_eto(rn) == <<"net_rad_eto", rn>>

radiation_term(dt, rng) == <<"radiation_term", dt, rng>>

wind_term(pt, tt, ea, es) == <<"wind_term", pt, tt, ea, es>>

eto(etwind, etrad) == <<"eto", etwind, etrad>>

-----------------------------------------------------------------------------
(* Library functions used by the client *)

\* statistics.mean of a two-element list
mean(a, b) == <<"mean", a, b>>

\* x * 0.0864
times_0_0864(x) == <<"times_0_0864", x>>

\* x / 100 on hundredths (63.00 -> 0.63)
div_100(x) == Num(Val(x) \div 100)

\* SpeedConverter.convert(x, km/h, m/s): x * 1000 / 3600 (36.00 -> 10.00)
SpeedConverter_convert(x) == Num((Val(x) * 10) \div 36)

-----------------------------------------------------------------------------
(* eto_irrigation: ETOApiClient *)

\* a constructor that reads the current state of each bound entity
init_entities_current_state == [e \in EntityIds |-> CHOOSE v \in Readings(e) : TRUE]

\* ETOApiClient.__init__: every bound entity starts without a value
init_entities == [e \in EntityIds |-> None]

\* ETOApiClient.__init__: station context, empty inputs, empty ETo
init_calc_data ==
    [k \in {"CONF_ELEVATION", "CONF_LATITUDE", "CONF_LONGITUDE", "CONF_DOY",
            "CALC_FSETO_35"} \cup Required |->
        CASE k = "CONF_ELEVATION" -> hass_config.elevation
          [] k = "CONF_LATITUDE"  -> hass_config.latitude
          [] k = "CONF_LONGITUDE" -> hass_config.longitude
          [] OTHER                -> None]

\* the keys calc_eto assigns, in the order it assigns them
StageKeys ==
    <<"CALC_S1_5", "CALC_S2_6", "CALC_S3_7", "CALC_S4_9", "CALC_S5_10", "CALC_S6_11",
      "CALC_S7_12", "CALC_S8_13", "CALC_S9_14", "CALC_S10_16", "CALC_S10_17",
      "CALC_S10_18", "CALC_S11_19", "CALC_S12_23", "CALC_S12_24", "CALC_S13_25",
      "CALC_S14_26", "CALC_S15_27", "CALC_S16_28", "CALC_S17_29", "CALC_S18_30",
      "CALC_S19_31", "CALC_S19_32", "CALC_FS_33", "CALC_FS_34", "CALC_FSETO_35">>

\* outcome of a piece of code: the dict it leaves and the exception it raised
Ok(cd) == [cd |-> cd, exc |-> "none"]

Raise(cd, e) == [cd |-> cd, exc |-> e]

\* the assignment of calc_eto to the key k, applied to the dict cd
calc_eto_assignment(k, cd) ==
    CASE k = "CALC_S1_5"   -> Ok(Put(cd, k, mean(cd["CONF_TEMP_MIN"], cd["CONF_TEMP_MAX"])))
      [] k = "CALC_S2_6"   -> Ok(Put(cd, k, times_0_0864(cd["CONF_SOLAR_RAD"])))
      [] k = "CALC_S3_7"   -> Ok(Put(cd, k, wind_speed(cd["CONF_WIND"], 10)))
      [] k = "CALC_S4_9"   -> Ok(Put(cd, k, delta_svp(cd["CALC_S1_5"])))
      [] k = "CALC_S5_10"  -> Ok(Put(cd, k, atm_pressure(cd["CONF_ELEVATION"])))
      [] k = "CALC_S6_11"  -> Ok(Put(cd, k, psy_const(cd["CALC_S5_10"])))
      [] k = "CALC_S7_12"  -> Ok(Put(cd, k, delta_term(cd["CALC_S4_9"], cd["CALC_S6_11"],
                                                       cd["CALC_S3_7"])))
      [] k = "CALC_S8_13"  -> Ok(Put(cd, k, psi_term(cd["CALC_S4_9"], cd["CALC_S6_11"],
                                                     cd["CALC_S3_7"])))
      [] k = "CALC_S9_14"  -> Ok(Put(cd, k, temperature_term(cd["CALC_S1_5"], cd["CALC_S3_7"])))
      [] k = "CALC_S10_16" -> Ok(Put(cd, k, svp_from_t(cd["CONF_TEMP_MAX"])))
      [] k = "CALC_S10_17" -> Ok(Put(cd, k, svp_from_t(cd["CONF_TEMP_MIN"])))
      [] k = "CALC_S10_18" -> Ok(Put(cd, k, mean(cd["CALC_S10_16"], cd["CALC_S10_17"])))
      [] k = "CALC_S11_19" ->
            IF ~rh_in_domain(cd["CONF_HUMIDITY_MIN"]) THEN Raise(cd, "ValueError")
            ELSE IF ~rh_in_domain(cd["CONF_HUMIDITY_MAX"]) THEN Raise(cd, "ValueError")
            ELSE Ok(Put(cd, k, mean(ea_from_rh(cd["CALC_S10_16"], cd["CONF_HUMIDITY_MIN"]),
                                    ea_from_rh(cd["CALC_S10_17"], cd["CONF_HUMIDITY_MAX"]))))
      [] k = "CALC_S12_23" -> Ok(Put(cd, k, inv_rel_dist_earth_sun(cd["CONF_DOY"])))
      [] k = "CALC_S12_24" -> Ok(Put(cd, k, sol_dec(cd["CONF_DOY"])))
      [] k = "CALC_S13_25" -> Ok(Put(cd, k, deg2rad(cd["CONF_LATITUDE"])))
      [] k = "CALC_S14_26" -> Ok(Put(cd, k, sunset_hour_angle(cd["CALC_S13_25"],
                                                              cd["CALC_S12_24"])))
      [] k = "CALC_S15_27" -> Ok(Put(cd, k, et_rad(cd["CALC_S13_25"], cd["CALC_S12_24"],
                                                   cd["CALC_S14_26"], cd["CALC_S12_23"])))
      [] k = "CALC_S16_28" -> Ok(Put(cd, k, cs_rad(cd["CONF_ELEVATION"], cd["CALC_S15_27"])))
      [] k = "CALC_S17_29" -> Ok(Put(cd, k, net_in_sol_rad(cd["CALC_S2_6"], cd["CONF_ALBEDO"])))
      [] k = "CALC_S18_30" -> Ok(Put(cd, k, net_out_lw_rad(c_to_k(cd["CONF_TEMP_MIN"]),
                                                           c_to_k(cd["CONF_TEMP_MAX"]),
                                                           cd["CALC_S2_6"], cd["CALC_S16_28"],
                                                           cd["CALC_S11_19"])))
      [] k = "CALC_S19_31" -> Ok(Put(cd, k, net_rad(cd["CALC_S17_29"], cd["CALC_S18_30"])))
      [] k = "CALC_S19_32" -> Ok(Put(cd, k, net_rad_eto(cd["CALC_S19_31"])))
      [] k = "CALC_FS_33"  -> Ok(Put(cd, k, radiation_term(cd["CALC_S7_12"], cd["CALC_S19_32"])))
      [] k = "CALC_FS_34"  -> Ok(Put(cd, k, wind_term(cd["CALC_S8_13"], cd["CALC_S9_14"],
                                                      cd["CALC_S11_19"], cd["CALC_S10_18"])))
      [] k = "CALC_FSETO_35" -> Ok(Put(cd, k, eto(cd["CALC_FS_34"], cd["CALC_FS_33"])))

\* a step 3 that keeps the wind at 2 m an earlier run stored
Stage_keeps_wind_at_2m(i, cd) ==
    IF StageKeys[i] = "CALC_S3_7" /\ "CALC_S3_7" \in DOMAIN cd THEN Ok(cd)
    ELSE calc_eto_assignment(StageKeys[i], cd)

\* the i-th assignment of calc_eto, applied to the dict cd
Stage(i, cd) == calc_eto_assignment(StageKeys[i], cd)

RECURSIVE run_stages(_, _)
\* the assignments i, i+1, ... of calc_eto in order, stopping at the first exception
\* (r is the outcome of the i-th assignment)
run_stages(i, cd) ==
    IF i > Len(StageKeys) THEN Ok(cd)
    ELSE CHOOSE out \in {IF r.exc # "none" THEN r ELSE run_stages(i + 1, r.cd) :
                              r \in {Stage(i, cd)}} : TRUE

\* ETOApiClient.calc_eto
calc_eto(cd) == run_stages(1, cd)

\* a gate that forgets the last input
no_data_yet_without_albedo(ent) ==
    \/ ent[options["CONF_TEMP_MIN"]] = None
    \/ ent[options["CONF_TEMP_MAX"]] = None
    \/ ent[options["CONF_HUMIDITY_MIN"]] = None
    \/ ent[options["CONF_HUMIDITY_MAX"]] = None
    \/ ent[options["CONF_WIND"]] = None
    \/ ent[options["CONF_SOLAR_RAD"]] = None

\* a gate that tests truthiness ("not value") instead of "is None"
no_data_yet_falsy(ent) ==
    \E f \in Required : ent[options[f]] \in {None, Num(0)}

\* a gate that takes a calm day (wind 0 km/h) for a missing wind reading
no_data_yet_calm_is_missing(ent) ==
    \/ \E f \in Required : ent[options[f]] = None
    \/ ent[options["CONF_WIND"]] = Num(0)

\* collect_calculation_data, the condition of the early return ("no data yet")
no_data_yet(ent) ==
    \/ ent[options["CONF_TEMP_MIN"]] = None
    \/ ent[options["CONF_TEMP_MAX"]] = None
    \/ ent[options["CONF_HUMIDITY_MIN"]] = None
    \/ ent[options["CONF_HUMIDITY_MAX"]] = None
    \/ ent[options["CONF_WIND"]] = None
    \/ ent[options["CONF_SOLAR_RAD"]] = None
    \/ ent[options["CONF_ALBEDO"]] = None

\* a copy that leaves the albedo of an earlier run in place
copy_inputs_keeps_albedo(ent, cd, doy) ==
    LET c1 == Put(cd, "CONF_TEMP_MIN", ent[options["CONF_TEMP_MIN"]])
        c2 == Put(c1, "CONF_TEMP_MAX", ent[options["CONF_TEMP_MAX"]])
        c3 == Put(c2, "CONF_HUMIDITY_MIN", div_100(ent[options["CONF_HUMIDITY_MIN"]]))
        c4 == Put(c3, "CONF_HUMIDITY_MAX", div_100(ent[options["CONF_HUMIDITY_MAX"]]))
        c5 == Put(c4, "CONF_WIND", ent[options["CONF_WIND"]])
        c6 == Put(c5, "CONF_WIND", SpeedConverter_convert(c5["CONF_WIND"]))
        c7 == Put(c6, "CONF_SOLAR_RAD", ent[options["CONF_SOLAR_RAD"]])
    IN  Put(c7, "CONF_DOY", Num(doy))

\* a copy that writes the albedo reading under the key of the elevation
copy_inputs_into_elevation(ent, cd, doy) ==
    LET c1 == Put(cd, "CONF_TEMP_MIN", ent[options["CONF_TEMP_MIN"]])
        c2 == Put(c1, "CONF_TEMP_MAX", ent[options["CONF_TEMP_MAX"]])
        c3 == Put(c2, "CONF_HUMIDITY_MIN", div_100(ent[options["CONF_HUMIDITY_MIN"]]))
        c4 == Put(c3, "CONF_HUMIDITY_MAX", div_100(ent[options["CONF_HUMIDITY_MAX"]]))
        c5 == Put(c4, "CONF_WIND", ent[options["CONF_WIND"]])
        c6 == Put(c5, "CONF_WIND", SpeedConverter_convert(c5["CONF_WIND"]))
        c7 == Put(c6, "CONF_SOLAR_RAD", ent[options["CONF_SOLAR_RAD"]])
        c8 == Put(c7, "CONF_ELEVATION", ent[options["CONF_ALBEDO"]])
    IN  Put(c8, "CONF_DOY", Num(doy))

\* a copy that keeps the wind speed of the first run instead of reading it again
copy_inputs_caches_wind(ent, cd, doy) ==
    LET c1 == Put(cd, "CONF_TEMP_MIN", ent[options["CONF_TEMP_MIN"]])
        c2 == Put(c1, "CONF_TEMP_MAX", ent[options["CONF_TEMP_MAX"]])
        c3 == Put(c2, "CONF_HUMIDITY_MIN", div_100(ent[options["CONF_HUMIDITY_MIN"]]))
        c4 == Put(c3, "CONF_HUMIDITY_MAX", div_100(ent[options["CONF_HUMIDITY_MAX"]]))
        c6 == IF c4["CONF_WIND"] = None
              THEN Put(c4, "CONF_WIND", SpeedConverter_convert(ent[options["CONF_WIND"]]))
              ELSE c4
        c7 == Put(c6, "CONF_SOLAR_RAD", ent[options["CONF_SOLAR_RAD"]])
        c8 == Put(c7, "CONF_ALBEDO", ent[options["CONF_ALBEDO"]])
    IN  Put(c8, "CONF_DOY", Num(doy))

\* a copy that keeps the day of year an earlier run stored
copy_inputs_keeps_doy(ent, cd, doy) ==
    LET c1 == Put(cd, "CONF_TEMP_MIN", ent[options["CONF_TEMP_MIN"]])
        c2 == Put(c1, "CONF_TEMP_MAX", ent[options["CONF_TEMP_MAX"]])
        c3 == Put(c2, "CONF_HUMIDITY_MIN", div_100(ent[options["CONF_HUMIDITY_MIN"]]))
        c4 == Put(c3, "CONF_HUMIDITY_MAX", div_100(ent[options["CONF_HUMIDITY_MAX"]]))
        c5 == Put(c4, "CONF_WIND", ent[options["CONF_WIND"]])
        c6 == Put(c5, "CONF_WIND", SpeedConverter_convert(c5["CONF_WIND"]))
        c7 == Put(c6, "CONF_SOLAR_RAD", ent[options["CONF_SOLAR_RAD"]])
        c8 == Put(c7, "CONF_ALBEDO", ent[options["CONF_ALBEDO"]])
    IN  Put(c8, "CONF_DOY", IF cd["CONF_DOY"] = None THEN Num(doy) ELSE cd["CONF_DOY"])

\* collect_calculation_data, the assignments of the try block before calc_eto
copy_inputs(ent, cd, doy) ==
    LET c1 == Put(cd, "CONF_TEMP_MIN", ent[options["CONF_TEMP_MIN"]])
        c2 == Put(c1, "CONF_TEMP_MAX", ent[options["CONF_TEMP_MAX"]])
        c3 == Put(c2, "CONF_HUMIDITY_MIN", div_100(ent[options["CONF_HUMIDITY_MIN"]]))
        c4 == Put(c3, "CONF_HUMIDITY_MAX", div_100(ent[options["CONF_HUMIDITY_MAX"]]))
        c5 == Put(c4, "CONF_WIND", ent[options["CONF_WIND"]])
        c6 == Put(c5, "CONF_WIND", SpeedConverter_convert(c5["CONF_WIND"]))
        c7 == Put(c6, "CONF_SOLAR_RAD", ent[options["CONF_SOLAR_RAD"]])
        c8 == Put(c7, "CONF_ALBEDO", ent[options["CONF_ALBEDO"]])
    IN  Put(c8, "CONF_DOY", Num(doy))

\* except clauses without the ValueError clause
except_clause_generic(exc) == "ETOApiClientError"

\* except clauses that log and do not raise
except_clause_swallow(exc) == "none"

\* collect_calculation_data, the except clauses: what an exception of the try block becomes
except_clause(exc) ==
    IF exc = "ValueError" THEN "ETOApiClientCalculationError" ELSE "ETOApiClientError"

\* ETOApiClient.collect_calculation_data: the dict it leaves, whether it logged
\* "no data yet", whether it called calc_eto, and the exception it raised
collect_calculation_data(ent, cd, doy) ==
    IF no_data_yet(ent)
    THEN [cd |-> cd, no_data_yet |-> TRUE, calc_eto |-> FALSE, exc |-> "none"]
    ELSE CHOOSE out \in
             {[cd |-> r.cd, no_data_yet |-> FALSE, calc_eto |-> TRUE,
               exc |-> IF r.exc = "none" THEN "none" ELSE except_clause(r.exc)] :
                  r \in {calc_eto(copy_inputs(ent, cd, doy))}} : TRUE

\* ETOApiClient.async_get_data: returns the reference to _calc_data unless
\* collect_calculation_data raised
async_get_data(ent, cd, doy) ==
    CHOOSE out \in
        {[cd |-> r.cd, no_data_yet |-> r.no_data_yet, calc_eto |-> r.calc_eto,
          exc |-> r.exc, ret |-> IF r.exc = "none" THEN "_calc_data" ELSE "None"] :
             r \in {collect_calculation_data(ent, cd, doy)}} : TRUE

\* ETODataUpdateCoordinator._async_update_data: what the scheduler gets when
\* async_get_data ended with exc ("none": the returned data)
async_update_data(exc) ==
    IF exc = "none" THEN "data"
    ELSE IF exc = "ETOApiClientAuthenticationError" THEN "ConfigEntryAuthFailed"
    ELSE IF exc \in {"ETOApiClientError", "ETOApiClientCommunicationError",
                     "ETOApiClientCalculationError", "ETOApiClientCalculationStartupError"}
         THEN "UpdateFailed"
    ELSE exc

\* the keys of the Result consumers read: the echoed inputs, the day of year, the ETo
ResultKeys == Required \cup {"CONF_DOY", "CALC_FSETO_35"}

\* the Result held in the dict d
ResultOf(d) == [k \in ResultKeys |-> d[k]]

-----------------------------------------------------------------------------
(* eto_irrigation: the operations, each one run of its handler *)

\* the state-change callback delivers a reading (or its absence) of entity e
entity_update(e, v) ==
    /\ entities' = [entities EXCEPT ![e] = v]
    /\ UNCHANGED <<calc_data, now, data, cycle, last_good>>
    /\ UNCHANGED testVars
    /\ UNCHANGED otherVars
    /\ UNCHANGED schedVars

EntityUpdate ==
    \E e \in EntityIds : \E v \in (Readings(e) \cup {None}) \ {entities[e]} : entity_update(e, v)

\* ETODataUpdateCoordinator._async_update_data: one refresh of the coordinator
UpdateData ==
    /\ UNCHANGED <<entities, now>>
    /\ UNCHANGED testVars
    /\ UNCHANGED otherVars
    /\ UNCHANGED schedVars
    /\ \E r \in {async_get_data(entities, calc_data, now)} :
        /\ cycle' = [no_data_yet |-> r.no_data_yet, calc_eto |-> r.calc_eto,
                     outcome |-> IF r.exc = "none" THEN "returned" ELSE r.exc,
                     update |-> async_update_data(r.exc)]
        /\ data' = IF async_update_data(r.exc) = "data" THEN r.ret ELSE data
        /\ calc_data' = r.cd
        /\ last_good' = IF r.calc_eto /\ r.exc = "none" THEN ResultOf(r.cd) ELSE last_good

\* midnight: datetime.now() moves to the next day
Tick ==
    /\ now < DayOne + MaxDays
    /\ now' = now + 1
    /\ UNCHANGED <<entities, calc_data, data, cycle, last_good>>
    /\ UNCHANGED testVars
    /\ UNCHANGED otherVars
    /\ UNCHANGED schedVars

-----------------------------------------------------------------------------
(* eto_test: ETOApiClient reading the host state machine *)

\* the entity ids bound to self._temp_min ... self._albedo (rain included)
TestEntityIds == EntityIds \cup {"sensor.rain"}

\* states.get(ent) is None: the entity has no state
NoState == "<no state>"

\* the state strings of an entity
StateStrings(e) ==
    CASE e = "sensor.temp_min"     -> {NoState, "unavailable", "19.1"}
      [] e = "sensor.temp_max"     -> {"25.1"}
      [] e = "sensor.humidity_min" -> {NoState, "unknown", "63"}
      [] e = "sensor.humidity_max" -> {"84"}
      [] e = "sensor.wind"         -> {NoState, "0", "36"}
      [] e = "sensor.rain"         -> {NoState, "1.2"}
      [] e = "sensor.solar_rad"    -> {"14.5"}
      [] e = "sensor.albedo"       -> {"0.23"}

\* the strings float() parses
is_float(s) == s \in {"19.1", "25.1", "63", "84", "0", "36", "1.2", "14.5", "0.23"}

\* float(st.state), on a string float() parses
float(s) ==
    CASE s = "19.1" -> Num(1910)
      [] s = "25.1" -> Num(2510)
      [] s = "63"   -> Num(6300)
      [] s = "84"   -> Num(8400)
      [] s = "0"    -> Num(0)
      [] s = "36"   -> Num(3600)
      [] s = "1.2"  -> Num(120)
      [] s = "14.5" -> Num(1450)
      [] s = "0.23" -> Num(23)

\* eto_test ETOApiClient._get
t_get(st) ==
    IF st # NoState
    THEN IF is_float(st) THEN float(st) ELSE Num(-100)
    ELSE Num(0)

\* eto_test ETOApiClient.__init__
t_init_calc_data ==
    [k \in {"CONF_ELEVATION", "CONF_LATITUDE", "CONF_LONGITUDE"} |->
        CASE k = "CONF_ELEVATION" -> hass_config.elevation
          [] k = "CONF_LATITUDE"  -> hass_config.latitude
          [] k = "CONF_LONGITUDE" -> hass_config.longitude]

\* eto_test ETOApiClient.calc: the same assignments as calc_eto
t_calc(cd) == run_stages(1, cd)

\* eto_test collect_calculation_data, the assignments before calc
t_read_inputs(st, cd, doy) ==
    LET c1 == Put(cd, "CONF_TEMP_MIN", t_get(st["sensor.temp_min"]))
        c2 == Put(c1, "CONF_TEMP_MAX", t_get(st["sensor.temp_max"]))
        c3 == Put(c2, "CONF_HUMIDITY_MIN", div_100(t_get(st["sensor.humidity_min"])))
        c4 == Put(c3, "CONF_HUMIDITY_MAX", div_100(t_get(st["sensor.humidity_max"])))
        c5 == Put(c4, "CONF_WIND", t_get(st["sensor.wind"]))
        c6 == Put(c5, "CONF_RAIN", t_get(st["sensor.rain"]))
        c7 == Put(c6, "CONF_SOLAR_RAD", t_get(st["sensor.solar_rad"]))
        c8 == Put(c7, "CONF_ALBEDO", t_get(st["sensor.albedo"]))
    IN  Put(c8, "CONF_DOY", Num(doy))

\* a collect that treats the rain as a required input: without a rain state it
\* returns before reading anything
t_collect_requires_rain(st, cd, doy) ==
    IF st["sensor.rain"] = NoState THEN Ok(cd) ELSE t_calc(t_read_inputs(st, cd, doy))

\* eto_test ETOApiClient.collect_calculation_data: no gate, no try block
t_collect_calculation_data(st, cd, doy) == t_calc(t_read_inputs(st, cd, doy))

\* the host state machine changes the state of entity e
TestStateChange ==
    \E e \in TestEntityIds : \E v \in StateStrings(e) \ {states[e]} :
        /\ states' = [states EXCEPT ![e] = v]
        /\ UNCHANGED <<t_calc_data, t_cycle>>
        /\ UNCHANGED irrigationVars
        /\ UNCHANGED otherVars
        /\ UNCHANGED schedVars

\* eto_test: one call of collect_calculation_data
TestCollect ==
    LET r == t_collect_calculation_data(states, t_calc_data, now) IN
    /\ UNCHANGED states
    /\ UNCHANGED irrigationVars
    /\ UNCHANGED otherVars
    /\ UNCHANGED schedVars
    /\ t_calc_data' = r.cd
    /\ t_cycle' = IF r.exc = "none" THEN "collected" ELSE r.exc

\* what the request of _api_wrapper meets: an HTTP status, a timeout of the 10 s
\* budget, a connection error, a body that is not JSON
Responses == {"200", "401", "403", "500", "timeout", "client_error", "not_json"}

\* _api_wrapper, the try block: the exception raised inside it ("none": the
\* JSON body is returned)
api_wrapper_try(resp) ==
    CASE resp = "timeout"         -> "TimeoutError"
      [] resp = "client_error"    -> "ClientError"
      [] resp \in {"401", "403"}  -> "ETOApiClientAuthenticationError"
      [] resp = "500"             -> "ClientResponseError"
      [] resp = "not_json"        -> "JSONDecodeError"
      [] OTHER                    -> "none"

\* _api_wrapper, the except clauses in their order
api_wrapper_except(exc) ==
    IF exc = "TimeoutError" THEN "ETOApiClientCommunicationError"
    ELSE IF exc \in {"ClientError", "ClientResponseError", "gaierror"}
         THEN "ETOApiClientCommunicationError"
    ELSE "ETOApiClientError"

\* ETOApiClient._api_wrapper: one request, the exception it raises
api_wrapper(resp) ==
    IF api_wrapper_try(resp) = "none" THEN "none"
    ELSE api_wrapper_except(api_wrapper_try(resp))

\* eto_test ETOApiClient.async_get_data: collect, then one request
t_async_get_data(st, cd, doy, resp) ==
    CHOOSE out \in
        {IF r.exc # "none"
         THEN [cd |-> r.cd, collect |-> r.exc, request |-> "none", requests |-> 0,
               exc |-> r.exc]
         ELSE [cd |-> r.cd, collect |-> "collected", request |-> resp, requests |-> 1,
               exc |-> api_wrapper(resp)] :
            r \in {t_collect_calculation_data(st, cd, doy)}} : TRUE

\* eto_test: one refresh of the coordinator
TestUpdateData ==
    /\ UNCHANGED states
    /\ UNCHANGED irrigationVars
    /\ UNCHANGED schedVars
    /\ UNCHANGED <<flowVars, twoVars, durationVars>>
    /\ UNCHANGED <<pipelineVars, deliveryVars, registryVars>>
    /\ \E resp \in Responses :
         \E r \in {t_async_get_data(states, t_calc_data, now, resp)} :
            /\ t_calc_data' = r.cd
            /\ t_cycle' = r.collect
            /\ t_update' = [request |-> r.request, requests |-> r.requests,
                            raised |-> r.exc, update |-> async_update_data(r.exc)]

\* the state machine when the instance is set up
init_states ==
    [e \in TestEntityIds |-> IF NoState \in StateStrings(e) THEN NoState
                             ELSE CHOOSE v \in StateStrings(e) : TRUE]

-----------------------------------------------------------------------------
(* eto_irrigation on the event loop: the refresh coroutine run step by step. *)
(* A task keeps the loop from one await that suspends to the next.           *)

\* the triggers of a refresh: the coordinator's interval and a state change
Tasks == {"interval", "state_change"}

\* a calc_eto that waits for something, so that awaiting it suspends the task
suspends_at_calc_eto(point) == point = "calc_eto"

\* a collect_calculation_data that awaits something between the gate and the copy
suspends_after_gate(point) == point = "copy"

\* whether the task is suspended at this point of the coroutine:
\* async_get_data, collect_calculation_data and calc_eto are coroutines without
\* an await of their own that waits, so awaiting them runs them inline, and
\* there is no await between the gate and the copy of the inputs
suspends(point) == FALSE

\* a trigger starts the refresh: _async_update_data calls async_get_data,
\* which calls collect_calculation_data
Begin(t) ==
    /\ running = "none"
    /\ pc[t] = "idle"
    /\ running' = IF suspends("async_get_data") \/ suspends("collect_calculation_data")
                  THEN "none" ELSE t
    /\ pc' = [pc EXCEPT ![t] = "gate"]
    /\ UNCHANGED irrigationVars
    /\ UNCHANGED otherVars
    /\ UNCHANGED testVars

\* the end of the refresh of task t with outcome r
finish(t, r) ==
    /\ calc_data' = r.cd
    /\ data' = IF async_update_data(r.exc) = "data" THEN "_calc_data" ELSE data
    /\ cycle' = [no_data_yet |-> r.no_data_yet, calc_eto |-> r.calc_eto,
                 outcome |-> IF r.exc = "none" THEN "returned" ELSE r.exc,
                 update |-> async_update_data(r.exc)]
    /\ last_good' = IF r.calc_eto /\ r.exc = "none" THEN ResultOf(r.cd) ELSE last_good
    /\ pc' = [pc EXCEPT ![t] = "idle"]
    /\ running' = "none"

\* collect_calculation_data up to the early return
GateStep(t) ==
    /\ running \in {"none", t}
    /\ pc[t] = "gate"
    /\ IF no_data_yet(entities)
       THEN finish(t, [cd |-> calc_data, no_data_yet |-> TRUE, calc_eto |-> FALSE,
                       exc |-> "none"])
       ELSE /\ pc' = [pc EXCEPT ![t] = "copy"]
            /\ running' = IF suspends("copy") THEN "none" ELSE t
            /\ UNCHANGED <<calc_data, data, cycle, last_good>>
    /\ UNCHANGED <<entities, now>>
    /\ UNCHANGED testVars
    /\ UNCHANGED otherVars

\* collect_calculation_data, the try block up to the await of calc_eto
CopyStep(t) ==
    /\ running \in {"none", t}
    /\ pc[t] = "copy"
    /\ calc_data' = copy_inputs(entities, calc_data, now)
    /\ pc' = [pc EXCEPT ![t] = "calc_eto"]
    /\ running' = IF suspends("calc_eto") THEN "none" ELSE t
    /\ UNCHANGED <<entities, now, data, cycle, last_good>>
    /\ UNCHANGED testVars
    /\ UNCHANGED otherVars

\* calc_eto and the return or raise of the refresh
CalcStep(t) ==
    /\ running \in {"none", t}
    /\ pc[t] = "calc_eto"
    /\ LET r == calc_eto(calc_data) IN
       finish(t, [cd |-> r.cd, no_data_yet |-> FALSE, calc_eto |-> TRUE,
                  exc |-> IF r.exc = "none" THEN "none" ELSE except_clause(r.exc)])
    /\ UNCHANGED <<entities, now>>
    /\ UNCHANGED testVars
    /\ UNCHANGED otherVars

\* the state-change callback runs entity_update when the loop is free
SchedEntityUpdate ==
    /\ running = "none"
    /\ \E e \in EntityIds : \E v \in Readings(e) \cup {None} :
          entities' = [entities EXCEPT ![e] = v]
    /\ UNCHANGED <<calc_data, now, data, cycle, last_good>>
    /\ UNCHANGED testVars
    /\ UNCHANGED otherVars
    /\ UNCHANGED schedVars

SchedBegin == \E t \in Tasks : Begin(t)

SchedGate == \E t \in Tasks : GateStep(t)

SchedCopy == \E t \in Tasks : CopyStep(t)

SchedCalc == \E t \in Tasks : CalcStep(t)

-----------------------------------------------------------------------------
(* eto_irrigation: the options flow and the reload of the config entry.      *)
(* The client keeps a reference to the config entry (self._config) and looks *)
(* the bindings up in its options on every refresh.                          *)

\* the logical input that the options of the first setup bind to the entity id e
InputOf(e) == CHOOSE f \in Required : options[f] = e

\* the options a user submits in the options flow: the first ones, the wind bound
\* to another sensor, the two humidity sensors exchanged
OptionChoices ==
    {options,
     [options EXCEPT !["CONF_WIND"] = "sensor.wind_gust"],
     [options EXCEPT !["CONF_HUMIDITY_MIN"] = "sensor.humidity_max",
                     !["CONF_HUMIDITY_MAX"] = "sensor.humidity_min"]}

\* the readings the entities deliver while the options flow is exercised
OptReadings(e) ==
    IF e = "sensor.wind_gust" THEN {Num(5400)}
    ELSE {v \in Readings(e) : Val(v) \in 1..10000}

\* ETOApiClient.__init__: the store has one key for each entity id of the options
build_entities(opts) == [e \in {opts[f] : f \in Required} |-> None]

\* collect_calculation_data: a subscript self._entities[self._config.options[...]]
\* raises KeyError
lookup_fails(opts, ent) == \E f \in Required : opts[f] \notin DOMAIN ent

\* the readings collect_calculation_data finds through the options opts, keyed by
\* the entity ids of the first setup
bound_readings(opts, ent) == [e \in EntityIds |-> ent[opts[InputOf(e)]]]

\* async_get_data of a client whose config entry holds the options opts
opt_async_get_data(opts, ent, cd, doy) ==
    IF lookup_fails(opts, ent)
    THEN [cd |-> cd, no_data_yet |-> FALSE, calc_eto |-> FALSE, exc |-> "KeyError",
          ret |-> "None"]
    ELSE async_get_data(bound_readings(opts, ent), cd, doy)

\* OptionsFlowHandler: the user submits changed options; the host stores them in
\* the config entry and schedules the update listener
OptionsFlowSubmit ==
    /\ listener = "idle"
    /\ \E opts \in OptionChoices \ {entry_options} : entry_options' = opts
    /\ listener' = "scheduled"
    /\ UNCHANGED built_options
    /\ UNCHANGED irrigationVars
    /\ UNCHANGED testVars
    /\ UNCHANGED schedVars
    /\ UNCHANGED <<twoVars, fetchVars, durationVars>>
    /\ UNCHANGED <<pipelineVars, deliveryVars, registryVars>>

\* async_update_options: the entry is reloaded; async_setup_entry builds a new
\* client and a new coordinator from the options and runs the first refresh
ReloadEntry ==
    /\ listener = "scheduled"
    /\ listener' = "idle"
    /\ built_options' = entry_options
    /\ UNCHANGED <<entry_options, now>>
    /\ UNCHANGED testVars
    /\ UNCHANGED schedVars
    /\ UNCHANGED <<twoVars, fetchVars, durationVars>>
    /\ UNCHANGED <<pipelineVars, deliveryVars, registryVars>>
    /\ entities' = build_entities(entry_options)
    /\ last_good' = None
    /\ \E r \in {opt_async_get_data(entry_options, build_entities(entry_options),
                                     init_calc_data, now)} :
        /\ cycle' = [no_data_yet |-> r.no_data_yet, calc_eto |-> r.calc_eto,
                     outcome |-> IF r.exc = "none" THEN "returned" ELSE r.exc,
                     update |-> async_update_data(r.exc)]
        /\ data' = IF async_update_data(r.exc) = "data" THEN r.ret ELSE "None"
        /\ calc_data' = r.cd

\* a state change of an entity tracked since the last setup is pushed to the client
OptEntityUpdate ==
    \E e \in DOMAIN entities : \E v \in (OptReadings(e) \cup {None}) \ {entities[e]} :
        entity_update(e, v)

\* one refresh of the coordinator; the client reads the options of the entry as
\* they are now
OptUpdateData ==
    /\ UNCHANGED <<entities, now>>
    /\ UNCHANGED testVars
    /\ UNCHANGED schedVars
    /\ UNCHANGED otherVars
    /\ \E r \in {opt_async_get_data(entry_options, entities, calc_data, now)} :
        /\ cycle' = [no_data_yet |-> r.no_data_yet, calc_eto |-> r.calc_eto,
                     outcome |-> IF r.exc = "none" THEN "returned" ELSE r.exc,
                     update |-> async_update_data(r.exc)]
        /\ data' = IF async_update_data(r.exc) = "data" THEN r.ret ELSE data
        /\ calc_data' = r.cd
        /\ last_good' = IF r.calc_eto /\ r.exc = "none" THEN ResultOf(r.cd) ELSE last_good

-----------------------------------------------------------------------------
(* Two config entries in one host: async_setup_entry runs once for each and   *)
(* builds a client and a coordinator for each. The dicts live on a heap so    *)
(* that which object an attribute refers to is part of the model.            *)

Clients == {"A", "B"}

\* an _entities attribute that is one dict of the class, shared by all clients
entities_cell_of_class(i) == "A._entities"

\* ETOApiClient.__init__, self._entities = {}: a dict of the client's own
entities_cell(i) == IF i = "A" THEN "A._entities" ELSE "B._entities"

\* a _calc_data attribute that is one dict of the class
calc_data_cell_of_class(i) == "A._calc_data"

\* ETOApiClient.__init__, self._calc_data = {}: a dict of the client's own
calc_data_cell(i) == IF i = "A" THEN "A._calc_data" ELSE "B._calc_data"

\* the coordinator built for the client: its data attribute
data_cell(i) == IF i = "A" THEN "A.data" ELSE "B.data"

Cells == {"A._entities", "B._entities", "A._calc_data", "B._calc_data", "A.data", "B.data"}

\* both clients after construction
init_heap ==
    [c \in Cells |->
        CASE c \in {"A._entities", "B._entities"}     -> init_entities
          [] c \in {"A._calc_data", "B._calc_data"}   -> init_calc_data
          [] OTHER                                    -> "None"]

\* the readings the entities of a client deliver
TwoReadings(e) ==
    IF e = "sensor.humidity_min" THEN Readings(e) ELSE OptReadings(e)

\* entity_update of client i
TwoEntityUpdate(i) ==
    /\ \E e \in EntityIds : \E v \in TwoReadings(e) \ {heap[entities_cell(i)][e]} :
          heap' = [heap EXCEPT ![entities_cell(i)] = [@ EXCEPT ![e] = v]]
    /\ UNCHANGED irrigationVars
    /\ UNCHANGED testVars
    /\ UNCHANGED schedVars
    /\ UNCHANGED <<flowVars, fetchVars, durationVars>>
    /\ UNCHANGED <<pipelineVars, deliveryVars, registryVars>>

\* one refresh of the coordinator of client i
TwoUpdateData(i) ==
    /\ UNCHANGED irrigationVars
    /\ UNCHANGED testVars
    /\ UNCHANGED schedVars
    /\ UNCHANGED <<flowVars, fetchVars, durationVars>>
    /\ UNCHANGED <<pipelineVars, deliveryVars, registryVars>>
    /\ \E r \in {async_get_data(heap[entities_cell(i)], heap[calc_data_cell(i)], now)} :
          heap' = [c \in Cells |->
                      IF c = calc_data_cell(i) THEN r.cd
                      ELSE IF c = data_cell(i) /\ async_update_data(r.exc) = "data"
                           THEN r.ret
                      ELSE heap[c]]

TwoPush == \E i \in Clients : TwoEntityUpdate(i)

TwoRefresh == \E i \in Clients : TwoUpdateData(i)

-----------------------------------------------------------------------------
(* eto_test: the irrigation duration. The sensor shows                       *)
(* coordinator.data[CALC_DURATION]; the estimator that fills this key is     *)
(* stated as estimate_duration(eto, rain, throughput): net requirement       *)
(* max(0, ETo - rain) divided by the throughput, absent when the throughput  *)
(* is absent or zero. ETo and rain count hundredths of a mm, the throughput  *)
(* hundredths of a mm per hour; a duration is the exact quotient <<n, d>>    *)
(* of n / d seconds (the values are small enough for n * d to stay below     *)
(* 2^31).                                                                    *)

\* the values of the ETo, the rain and the throughput
EtoValues == {None, Num(100), Num(350)}

RainValues == {None, Num(120), Num(350)}

ThroughputValues == {None, Num(0), Num(1000), Num(1500), Num(1520)}

\* a sensor that shows 0 where there is no duration
native_value_or_zero(d) ==
    IF d["CALC_DURATION"] = None THEN <<0, 1>> ELSE d["CALC_DURATION"]

\* a sensor that shows whole minutes
native_value_whole_minutes(d) ==
    IF d["CALC_DURATION"] = None THEN None
    ELSE <<((d["CALC_DURATION"][1] \div d["CALC_DURATION"][2]) \div 60) * 60, 1>>

\* ETOSensor.native_value
native_value(d) == d["CALC_DURATION"]

\* ETOSensor.native_value: the subscript raises KeyError
native_value_raises(d) == "CALC_DURATION" \notin DOMAIN d

\* estimate_duration(eto, rain, throughput)
estimate_duration(e, rain, throughput) ==
    IF e = None \/ throughput = None THEN None
    ELSE IF Val(throughput) = 0 THEN None
    ELSE LET r == IF rain = None THEN 0 ELSE Val(rain)
             net == IF Val(e) > r THEN Val(e) - r ELSE 0
         IN  <<net * 3600, Val(throughput)>>

\* the refresh stores the estimate in the dict the coordinator hands out
store_duration(cd, e, rain, throughput) ==
    Put(cd, "CALC_DURATION", estimate_duration(e, rain, throughput))

\* nothing shown yet
NoPublication ==
    [eto |-> None, rain |-> None, throughput |-> None, duration |-> None, read |-> "none"]

init_dur ==
    [eto |-> None, rain |-> None, throughput |-> None, data |-> t_init_calc_data,
     shown |-> NoPublication, before |-> NoPublication]

\* the pipeline, the rain sensor or the throughput setting takes another value
DurInput ==
    /\ \/ \E v \in EtoValues \ {dur.eto} : dur' = [dur EXCEPT !.eto = v]
       \/ \E v \in RainValues \ {dur.rain} : dur' = [dur EXCEPT !.rain = v]
       \/ \E v \in ThroughputValues \ {dur.throughput} :
              dur' = [dur EXCEPT !.throughput = v]
    /\ UNCHANGED irrigationVars
    /\ UNCHANGED testVars
    /\ UNCHANGED schedVars
    /\ UNCHANGED <<flowVars, twoVars, fetchVars>>
    /\ UNCHANGED <<pipelineVars, deliveryVars, registryVars>>

\* a refresh fills CALC_DURATION and the sensor is read; before keeps what was
\* shown last if that was for the same ETo and rain
DurRefresh ==
    /\ UNCHANGED irrigationVars
    /\ UNCHANGED testVars
    /\ UNCHANGED schedVars
    /\ UNCHANGED <<flowVars, twoVars, fetchVars>>
    /\ UNCHANGED <<pipelineVars, deliveryVars, registryVars>>
    /\ \E d \in {store_duration(dur.data, dur.eto, dur.rain, dur.throughput)} :
          dur' = [dur EXCEPT
                    !.data = d,
                    !.shown = [eto |-> dur.eto, rain |-> dur.rain,
                               throughput |-> dur.throughput,
                               duration |-> IF native_value_raises(d) THEN None
                                            ELSE native_value(d),
                               read |-> IF native_value_raises(d) THEN "KeyError"
                                        ELSE "value"],
                    !.before = IF dur.shown.eto = dur.eto /\ dur.shown.rain = dur.rain
                               THEN dur.shown ELSE NoPublication]

-----------------------------------------------------------------------------
(* calc_eto, one assignment at a time.  A run starts on the dict an earlier   *)
(* run left (_calc_data is kept between refreshes); the same run is made on a *)
(* second dict that differs in nothing but those leftovers.                   *)

\* the days the clock shows
Days == DayOne .. (DayOne + MaxDays)

RECURSIVE Snapshots(_)
\* every assignment of a reading to each entity of S
Snapshots(S) ==
    IF S = {} THEN {[x \in {} |-> None]}
    ELSE LET e == CHOOSE x \in S : TRUE
         IN  {Put(f, e, v) : f \in Snapshots(S \ {e}), v \in Readings(e)}

\* the dicts an earlier run of collect_calculation_data can have left in
\* _calc_data, complete after a run that returned, partial after one that raised
Leftovers ==
    {calc_eto(copy_inputs(ent, init_calc_data, doy)).cd :
        ent \in Snapshots(EntityIds), doy \in Days}

\* no run yet
init_stages ==
    [i |-> 0, cd |-> init_calc_data, twin |-> init_calc_data, exc |-> "none",
     ent |-> init_entities, doy |-> DayOne]

\* collect_calculation_data passes the gate and copies the inputs, on the last
\* day of the clock
StagesStart ==
    /\ stages.i = 0
    /\ \E ent \in Snapshots(EntityIds) : \E left1 \in Leftovers : \E left2 \in Leftovers :
          stages' = [i |-> 1,
                     cd |-> copy_inputs(ent, left1, DayOne + MaxDays),
                     twin |-> copy_inputs(ent, left2, DayOne + MaxDays),
                     exc |-> "none", ent |-> ent, doy |-> DayOne + MaxDays]
    /\ UNCHANGED irrigationVars
    /\ UNCHANGED testVars
    /\ UNCHANGED schedVars
    /\ UNCHANGED <<flowVars, twoVars, fetchVars, durationVars, deliveryVars, registryVars>>

\* the next assignment of calc_eto
StageStep ==
    /\ stages.i \in 1..Len(StageKeys)
    /\ stages.exc = "none"
    /\ \E r \in {Stage(stages.i, stages.cd)} : \E r2 \in {Stage(stages.i, stages.twin)} :
          stages' = [stages EXCEPT !.i = IF r.exc = "none" THEN stages.i + 1 ELSE stages.i,
                                   !.cd = r.cd, !.twin = r2.cd, !.exc = r.exc]
    /\ UNCHANGED irrigationVars
    /\ UNCHANGED testVars
    /\ UNCHANGED schedVars
    /\ UNCHANGED <<flowVars, twoVars, fetchVars, durationVars, deliveryVars, registryVars>>

-----------------------------------------------------------------------------
(* eto_irrigation from the construction of the client on, with the record of *)
(* the entities that have delivered a value.                                 *)

\* the state-change callback delivers a reading (or its absence) of entity e
DeliveryUpdate ==
    \E e \in EntityIds : \E v \in (Readings(e) \cup {None}) \ {entities[e]} :
        /\ entities' = [entities EXCEPT ![e] = v]
        /\ delivered' = IF v # None THEN delivered \cup {e} ELSE delivered
        /\ UNCHANGED <<calc_data, now, data, cycle, last_good>>
        /\ UNCHANGED testVars
        /\ UNCHANGED schedVars
        /\ UNCHANGED <<flowVars, twoVars, fetchVars, durationVars, pipelineVars, registryVars>>

-----------------------------------------------------------------------------
-----------------------------------------------------------------------------
(* The config flows and options flows of both integrations.  The host keeps  *)
(* the config entries of each integration; neither flow sets a unique id, so *)
(* the host itself refuses no entry.                                         *)

\* the names users type
Names == {"Garden", "Lawn"}

\* entry.data.get(CONF_NAME) of an entry whose data has no name
NoName == "None"

\* config flows of eto_irrigation that can be in progress at the same time
Flows == {"flow1", "flow2"}

\* number of config entries an integration gets in the model
MaxEntries == 2

\* configured_instances: the names in the data of the integration's entries
configured_instances(entries) == {entries[i].name : i \in 1..Len(entries)}

\* a config flow of eto_irrigation that shows the form of its user step
flow_at_user == [step |-> "user", name |-> NoName, errors |-> "none"]

\* no entry, both flows of eto_irrigation at their user step, no user step of
\* eto_test submitted yet
init_registry ==
    [irrigation |-> <<>>, test |-> <<>>, flows |-> [f \in Flows |-> flow_at_user],
     t_form |-> "none"]

\* framing of the steps of the flows
registry_step ==
    /\ UNCHANGED irrigationVars
    /\ UNCHANGED testVars
    /\ UNCHANGED schedVars
    /\ UNCHANGED <<flowVars, twoVars, fetchVars, durationVars, pipelineVars, deliveryVars>>

\* eto_irrigation ConfigFlowHandler.async_step_user with a submitted name: the
\* form again with the error when the name is configured, else the form of
\* step init (async_step_init without input)
IrrStepUser(f, name) ==
    /\ registry.flows[f].step = "user"
    /\ registry' =
          [registry EXCEPT !.flows[f] =
              IF name \in configured_instances(registry.irrigation)
              THEN [step |-> "user", name |-> name, errors |-> "already_configured"]
              ELSE [step |-> "init", name |-> name, errors |-> "none"]]
    /\ registry_step

\* eto_irrigation ConfigFlowHandler.async_step_init with the submitted bindings,
\* which goes on to async_step_update: the entry is created and the flow ends
\* (the next flow of this session starts at its user step)
IrrStepInit(f, opts) ==
    /\ registry.flows[f].step = "init"
    /\ Len(registry.irrigation) < MaxEntries
    /\ registry' =
          [registry EXCEPT
              !.irrigation = Append(registry.irrigation,
                                    [name |-> registry.flows[f].name, options |-> opts]),
              !.flows[f] = flow_at_user]
    /\ registry_step

\* eto_irrigation OptionsFlowHandler.async_step_init with input: the options of
\* the entry are replaced, its data (the name) is not touched
IrrOptionsStep(i, opts) ==
    /\ i \in 1..Len(registry.irrigation)
    /\ registry' = [registry EXCEPT !.irrigation[i].options = opts]
    /\ registry_step

\* eto_test ETOFlowHandler.async_step_user with input
TestStepUser(name) ==
    /\ IF name \notin configured_instances(registry.test)
       THEN /\ Len(registry.test) < MaxEntries
            /\ registry' = [registry EXCEPT !.test = Append(registry.test, [name |-> name]),
                                            !.t_form = "created"]
       ELSE registry' = [registry EXCEPT !.t_form = "already_configured"]
    /\ registry_step

\* eto_test ETOFlowHandler.async_step_onboarding: an entry with empty data
TestStepOnboarding ==
    /\ Len(registry.test) < MaxEntries
    /\ registry' = [registry EXCEPT !.test = Append(registry.test, [name |-> NoName])]
    /\ registry_step

\* eto_test ETOOptionsFlowHandler.async_step_init with input: the data of the
\* entry is replaced by the submitted form, whose first field is the name
TestOptionsStep(i, name) ==
    /\ i \in 1..Len(registry.test)
    /\ registry' = [registry EXCEPT !.test[i].name = name]
    /\ registry_step

IrrUser == \E f \in Flows : \E name \in Names : IrrStepUser(f, name)

IrrInit == \E f \in Flows : \E opts \in OptionChoices : IrrStepInit(f, opts)

IrrOptions == \E i \in 1..MaxEntries : \E opts \in OptionChoices : IrrOptionsStep(i, opts)

TestUser == \E name \in Names : TestStepUser(name)

TestOptions == \E i \in 1..MaxEntries : \E name \in Names : TestOptionsStep(i, name)

-----------------------------------------------------------------------------
(* Specifications *)

Init ==
    /\ entities = init_entities
    /\ calc_data = init_calc_data
    /\ now = DayOne
    /\ data = "None"
    /\ cycle = [no_data_yet |-> FALSE, calc_eto |-> FALSE, outcome |-> "none",
                update |-> "none"]
    /\ last_good = None
    /\ states = init_states
    /\ t_calc_data = t_init_calc_data
    /\ t_cycle = "none"
    /\ pc = [t \in Tasks |-> "idle"]
    /\ running = "none"
    /\ entry_options = options
    /\ built_options = options
    /\ listener = "idle"
    /\ heap = init_heap
    /\ t_update = [request |-> "none", requests |-> 0, raised |-> "none", update |-> "none"]
    /\ dur = init_dur
    /\ stages = init_stages
    /\ delivered = {}
    /\ registry = init_registry

Next == EntityUpdate \/ UpdateData \/ Tick

\* eto_irrigation, each handler run as a whole
Spec == Init /\ [][Next]_vars

LiveNext == EntityUpdate \/ UpdateData

\* eto_irrigation within one day, with the coordinator's update interval: the
\* timer fires again after every refresh, so a refresh that would change
\* something is not put off for ever
SpecLive == Init /\ [][LiveNext]_vars /\ WF_vars(UpdateData)

TestNext == TestStateChange \/ TestCollect \/ Tick

\* eto_test
SpecTest == Init /\ [][TestNext]_vars

OptNext == OptionsFlowSubmit \/ ReloadEntry \/ OptEntityUpdate \/ OptUpdateData

\* eto_irrigation with the options flow
SpecOptions == Init /\ [][OptNext]_vars

TwoNext == TwoPush \/ TwoRefresh

\* two clients of eto_irrigation in one host
SpecTwo == Init /\ [][TwoNext]_vars

FetchNext == TestStateChange \/ TestUpdateData

\* eto_test with its coordinator
SpecFetch == Init /\ [][FetchNext]_vars

DurNext == DurInput \/ DurRefresh

\* eto_test: the duration sensor
SpecDuration == Init /\ [][DurNext]_vars

StagesNext == StagesStart \/ StageStep

\* calc_eto assignment by assignment
SpecStages == Init /\ [][StagesNext]_vars

DeliveryNext == DeliveryUpdate \/ UpdateData

\* eto_irrigation from construction on: the first refresh of async_setup_entry
\* and every later one, between pushes
SpecDelivery == Init /\ [][DeliveryNext]_vars

RegistryNext ==
    IrrUser \/ IrrInit \/ IrrOptions \/ TestUser \/ TestStepOnboarding \/ TestOptions

\* the config flows and options flows of both integrations
SpecRegistry == Init /\ [][RegistryNext]_vars

SchedNext == SchedEntityUpdate \/ SchedBegin \/ SchedGate \/ SchedCopy \/ SchedCalc

\* eto_irrigation, the refresh coroutine of each trigger run step by step
SpecSched == Init /\ [][SchedNext]_vars

-----------------------------------------------------------------------------
(* Properties *)

\* the required inputs that have no value
Missing(ent) == {f \in Required : ent[options[f]] = None}

\* a humidity reading (in percent) whose fraction lies outside [0,1]
HumidityOutOfRange(ent) ==
    \E f \in {"CONF_HUMIDITY_MIN", "CONF_HUMIDITY_MAX"} :
        /\ ent[options[f]] # None
        /\ (Val(ent[options[f]]) < 0 \/ Val(ent[options[f]]) > 10000)

\* what a consumer holding the reference ref reads
Deref(ref, cd) == IF ref = "_calc_data" THEN cd ELSE None

Errors == {"ETOApiClientCalculationError", "ETOApiClientError"}

\* the ETo calc_eto computes from the readings ent on day doy, starting from a
\* dict no run has touched
FreshEto(ent, doy) == calc_eto(copy_inputs(ent, init_calc_data, doy)).cd["CALC_FSETO_35"]

\* C1: a refresh that finds at least one of the seven required inputs without a
\* value logs "no data yet" and does not call calc_eto, whichever inputs are missing.
C1_MissingInputBlocksCalc ==
    [][(UpdateData /\ Missing(entities) # {})
         => (cycle'.no_data_yet /\ ~cycle'.calc_eto
             /\ calc_data'["CALC_FSETO_35"] = calc_data["CALC_FSETO_35"])]_vars

\* a refresh was blocked with only the albedo missing, after an ETo had been computed
C1_Witness ==
    /\ cycle.no_data_yet
    /\ ~cycle.calc_eto
    /\ Missing(entities) = {"CONF_ALBEDO"}
    /\ calc_data["CALC_FSETO_35"] # None

\* C3: a refresh that finds all seven required inputs with a value calls calc_eto,
\* whatever the values are; a reading of 0 is not a missing input.
C3_CompleteInputsRunCalc ==
    [][(UpdateData /\ Missing(entities) = {})
         => (cycle'.calc_eto /\ ~cycle'.no_data_yet)]_vars

\* the pipeline ran and returned an ETo with a wind speed of exactly 0
C3_Witness ==
    /\ cycle.calc_eto
    /\ cycle.outcome = "returned"
    /\ entities["sensor.wind"] = Num(0)
    /\ calc_data["CONF_WIND"] = Num(0)
    /\ calc_data["CALC_FSETO_35"] = FreshEto(entities, now)

\* C4 (as claimed): after a refresh blocked by the gate, the ETo and the echoed
\* inputs a consumer reads are those of the last successful refresh.
C4_PendingShowsLastGood ==
    (cycle.no_data_yet /\ cycle.outcome = "returned" /\ last_good # None)
        => ResultOf(calc_data) = last_good

\* C5: with all seven inputs present and a humidity fraction outside [0,1], the
\* refresh raises ETOApiClientCalculationError and leaves the ETo as it was.
C5_HumidityOutOfRangeRaises ==
    [][(UpdateData /\ Missing(entities) = {} /\ HumidityOutOfRange(entities))
         => (cycle'.outcome = "ETOApiClientCalculationError"
             /\ calc_data'["CALC_FSETO_35"] = calc_data["CALC_FSETO_35"])]_vars

\* a refresh with humidity_min = 150 % ended in ETOApiClientCalculationError
C5_Witness ==
    /\ cycle.outcome = "ETOApiClientCalculationError"
    /\ Missing(entities) = {}
    /\ entities["sensor.humidity_min"] = Num(15000)
    /\ calc_data["CONF_HUMIDITY_MIN"] = Num(150)

\* C6 (as claimed): a refresh that ends in an error leaves the Result consumers
\* read (the one of the last successful refresh) exactly as it was before.
C6_AbortLeavesResult ==
    [][(UpdateData /\ cycle'.outcome \in Errors /\ last_good # None)
         => ResultOf(Deref(data', calc_data')) = ResultOf(Deref(data, calc_data))]_vars

\* C7 (as claimed): once a Result has been handed to consumers, no later step
\* changes any field of the object they hold.
C7_ReturnedResultImmutable ==
    [][(data = "_calc_data" /\ calc_data["CALC_FSETO_35"] # None)
         => calc_data' = calc_data]_vars

InProgress == {t \in Tasks : pc[t] # "idle"}

\* C9: at most one run of collect_calculation_data and calc_eto is in progress
\* at any time, whatever the order of interval polls and state-change triggers.
C9_OneRunAtATime == Cardinality(InProgress) <= 1

\* a run is between its copy of the inputs and calc_eto while the other trigger waits
C9_Witness ==
    /\ running = "interval"
    /\ pc["interval"] = "calc_eto"
    /\ pc["state_change"] = "idle"
    /\ cycle.outcome = "returned"
    /\ cycle.calc_eto

C2_UnreadableIsAbsent ==
    [][TestCollect
         => \A f \in Required :
               ~is_float(states[options[f]]) => t_calc_data'[f] = None]_vars

\* the station context held in the dict d
StationContext(d) == <<d["CONF_ELEVATION"], d["CONF_LATITUDE"], d["CONF_LONGITUDE"]>>

FreshRun(ent, doy) == calc_eto(copy_inputs(ent, init_calc_data, doy)).cd

TestReadable(st) == \A e \in EntityIds : is_float(st[e])

\* the outcome r of a collect with the value under CONF_RAIN blanked
WithoutRain(r) == [r EXCEPT !.cd = Put(@, "CONF_RAIN", None)]

C20_WindConvertedOnce ==
    [][TestCollect
         => t_calc_data'["CALC_S3_7"]
              = wind_speed(SpeedConverter_convert(t_get(states["sensor.wind"])), 10)]_vars

\* all seven required inputs have a value and both humidity fractions lie in [0,1]
InputsValid == Missing(entities) = {} /\ ~HumidityOutOfRange(entities)

\* the last refresh ran the pipeline to its end and handed consumers an ETo
Produced ==
    /\ cycle.calc_eto
    /\ cycle.outcome = "returned"
    /\ data = "_calc_data"
    /\ calc_data["CALC_FSETO_35"] # None

\* C19: pending is recoverable. If from some point on all seven inputs hold valid
\* values, then from some point on every refresh has produced a Result with an
\* ETo: neither the pending state nor an earlier failure persists.
C19_PendingRecovers == <>[]InputsValid => <>[]Produced

\* a refresh produced an ETo after the albedo, the last missing input, arrived
C19_Witness ==
    /\ Produced
    /\ InputsValid
    /\ last_good # None
    /\ last_good["CONF_ALBEDO"] = Num(23)
    /\ entities["sensor.humidity_min"] = Num(6300)
    /\ now = DayOne

C18_FetchFailurePropagated ==
    [][TestUpdateData
         => /\ t_update'.requests <= 1
            /\ t_update'.request \in {"401", "403"}
                 => t_update'.update = "ConfigEntryAuthFailed"
            /\ t_update'.request \in Responses \ {"200", "401", "403"}
                 => t_update'.update = "UpdateFailed"]_vars

\* the throughput t is a positive number
Positive(t) == t # None /\ Val(t) > 0

\* the duration a is shorter than the duration b (both quotients <<n, d>>, d > 0)
Shorter(a, b) == a[1] * b[2] < b[1] * a[2]

-----------------------------------------------------------------------------
(* The day of year of a cycle *)

\* C24: in every successful cycle the day of year stored for the run, used by the
\* Earth-Sun distance and the solar declination, and echoed in the Result, is the
\* day of year of the clock read in that cycle, not a value an earlier cycle left.
C24_DayOfYearIsToday ==
    [][(UpdateData /\ cycle'.calc_eto /\ cycle'.outcome = "returned")
         => /\ calc_data'["CONF_DOY"] = Num(now)
            /\ calc_data'["CALC_S12_23"] = inv_rel_dist_earth_sun(Num(now))
            /\ calc_data'["CALC_S12_24"] = sol_dec(Num(now))
            /\ ResultOf(calc_data')["CONF_DOY"] = Num(now)]_vars

\* a successful cycle on the second day of the clock
C24_Witness ==
    /\ cycle.calc_eto
    /\ cycle.outcome = "returned"
    /\ now = DayOne + 1
    /\ last_good # None
    /\ calc_data["CONF_DOY"] = Num(DayOne + 1)
    /\ calc_data["CALC_S12_24"] = sol_dec(Num(DayOne + 1))

-----------------------------------------------------------------------------
(* The gate and the copy of one run *)

\* C23: while a run of collect_calculation_data is between its gate and its copy
\* of the inputs, no entity_update takes effect: the readings the gate found
\* complete are still complete and unchanged when they are copied, and the copy
\* puts exactly them into the calculation data.
C23_NoPushBetweenGateAndCopy ==
    [][\A t \in Tasks :
          pc[t] = "copy"
            => /\ entities' = entities
               /\ ~no_data_yet(entities)
               /\ (pc'[t] # "copy" => calc_data' = copy_inputs(entities, calc_data, now))]_vars

\* a run started by a state change has passed the gate and has not copied yet,
\* on readings that were pushed after an earlier run returned
C23_Witness ==
    /\ pc["state_change"] = "copy"
    /\ running = "state_change"
    /\ ~no_data_yet(entities)
    /\ entities["sensor.wind"] = Num(3600)
    /\ cycle.outcome = "returned"
    /\ calc_data["CONF_WIND"] = SpeedConverter_convert(Num(0))

-----------------------------------------------------------------------------
(* The order of the assignments of calc_eto *)

\* the keys calc_eto assigns
StageKeySet == {StageKeys[j] : j \in 1..Len(StageKeys)}

\* C22: every stage of calc_eto reads only the station context, the converted
\* inputs and values written earlier in the same run: what a stage has written
\* does not depend on what an earlier run left in the dict, and a run that
\* completes has written every stage key, with the value a run on a dict
\* without any stage value writes.
C22_StagesReadWhatWasWritten ==
    /\ \A j \in 1..Len(StageKeys) :
          j < stages.i => stages.cd[StageKeys[j]] = stages.twin[StageKeys[j]]
    /\ (stages.i > Len(StageKeys))
          => \E fresh \in {FreshRun(stages.ent, stages.doy)} :
                \A k \in StageKeySet :
                    /\ k \in DOMAIN fresh
                    /\ fresh[k] # None
                    /\ stages.cd[k] = fresh[k]

\* a run has written the wind at 2 m and stands before step 4; the two dicts
\* still hold different delta terms and different solar declinations, left by
\* earlier runs with other wind on other days
C22_Witness ==
    /\ stages.i = 4
    /\ stages.ent["sensor.wind"] = Num(3600)
    /\ stages.cd["CALC_S3_7"] = wind_speed(SpeedConverter_convert(Num(3600)), 10)
    /\ stages.twin["CALC_S3_7"] = stages.cd["CALC_S3_7"]
    /\ "CALC_S12_24" \in DOMAIN stages.cd
    /\ "CALC_S12_24" \in DOMAIN stages.twin
    /\ stages.cd["CALC_S7_12"] # stages.twin["CALC_S7_12"]
    /\ stages.cd["CALC_S12_24"] # stages.twin["CALC_S12_24"]

-----------------------------------------------------------------------------
(* The first ETo of an instance *)

\* C25: the ETo of an instance is None until every bound entity has delivered at
\* least one value that is not None through entity_update since the client was
\* constructed; until then no refresh calls calc_eto.
C25_EtoWaitsForEveryEntity ==
    /\ calc_data["CALC_FSETO_35"] # None => delivered = EntityIds
    /\ cycle.calc_eto => delivered = EntityIds
    /\ delivered # EntityIds => last_good = None

\* every entity has delivered a value, a refresh has produced the ETo, and the
\* wind sensor has since lost its state
C25_Witness ==
    /\ calc_data["CALC_FSETO_35"] # None
    /\ delivered = EntityIds
    /\ entities["sensor.wind"] = None
    /\ cycle.outcome = "returned"

-----------------------------------------------------------------------------
(* The names of the configured instances *)

\* whether no two entries of the sequence carry the same name (entries whose
\* data has no name aside)
NamesDistinct(entries) ==
    \A i \in 1..Len(entries) : \A j \in 1..Len(entries) :
        (i # j /\ entries[i].name # NoName) => entries[i].name # entries[j].name

\* C26: after any sequence of config-flow and options-flow steps no two
\* configured instances of an integration have the same name.
C26_NamesUnique ==
    /\ NamesDistinct(registry.irrigation)
    /\ NamesDistinct(registry.test)

====
